---------------------------- MODULE Spec2Model ----------------------------
(***************************************************************************)
(* Model of art/defences/postprocessor/rounded.py (class Rounded) and of   *)
(* the Wasserstein attack engine exercised by                              *)
(* tests/attacks/evasion/test_wasserstein.py.                              *)
(*                                                                         *)
(* Prediction tensors are arrays of IEEE-754 binary16 (numpy float16) or  *)
(* of int64 elements.  np.around(a, decimals) on a float array is          *)
(*     multiply(a, 10**decimals); rint; true_divide(., 10**decimals)       *)
(* with every ufunc result rounded to the array's dtype, and that is how   *)
(* around is computed here, on the integer significand and exponent.  On   *)
(* an integer array with decimals >= 0 the numpy that still has np.int     *)
(* (before 1.24) returns the array itself.                                 *)
(***************************************************************************)
EXTENDS Integers, Sequences, FiniteSets, TLC

\* ------------------------------------------------------------------ bounds
\* largest number of decimal places tried
MaxDecimals == 3
\* longest prediction tensor
MaxLen == 2
\* arrays alive at once (the caller's tensor and results of __call__)
MaxArrays == 2
\* successive applications of __call__ to its own result
MaxApplications == 2

\* ------------------------------------------------- binary16 tensor elements
\* A finite element is (-1)^s * m * 2^e with 0 <= m < 2^11; normal numbers
\* have 2^10 <= m and -24 <= e <= 5, subnormals and zero have e = -24.
Fin(s, m, e) == [k |-> "fin", s |-> s, m |-> m, e |-> e]
Inf(s) == [k |-> "inf", s |-> s, m |-> 0, e |-> 0]
NaN == [k |-> "nan", s |-> 0, m |-> 0, e |-> 0]
Zero(s) == Fin(s, 0, 0 - 24)
\* an element of an integer array: the integer n
IntElem(n) == [k |-> "int", s |-> 0, m |-> n, e |-> 0]

\* the element a 16-bit pattern encodes (sign 1, exponent 5, fraction 10)
Decode(bits) ==
    LET s == bits \div 32768
        ef == (bits % 32768) \div 1024
        fr == bits % 1024
    IN  IF ef = 31 THEN (IF fr = 0 THEN Inf(s) ELSE NaN)
        ELSE IF ef = 0 THEN Fin(s, fr, 0 - 24)
        ELSE Fin(s, 1024 + fr, ef - 25)

RECURSIVE BitLen(_)
BitLen(n) == IF n = 0 THEN 0 ELSE 1 + BitLen(n \div 2)

Max(a, b) == IF a >= b THEN a ELSE b

\* significand 2^11 carries into the next binade; past the largest exponent
\* the result overflows to infinity
Pack(s, m, e) ==
    LET m1 == IF m = 2048 THEN 1024 ELSE m
        e1 == IF m = 2048 THEN e + 1 ELSE e
    IN  IF e1 > 5 THEN Inf(s) ELSE Fin(s, m1, e1)

\* the binary16 nearest to M * 2^E (+ a nonzero amount below 2^E when sticky),
\* ties to even
RoundHalf(s, M, E, sticky) ==
    IF M = 0 THEN Zero(s)
    ELSE LET e1 == Max(E + BitLen(M) - 11, 0 - 24)
             k == e1 - E
         IN  IF k <= 0 THEN Pack(s, M * 2^(0 - k), e1)
             ELSE LET q == M \div 2^k
                      r == M % 2^k
                      half == 2^(k - 1)
                      up == \/ r > half
                            \/ r = half /\ (sticky \/ q % 2 = 1)
                  IN  Pack(s, IF up THEN q + 1 ELSE q, e1)

\* numpy.multiply(x, f) in float16, f a power of ten
MulPow10(x, f) ==
    IF x.k # "fin" THEN x ELSE RoundHalf(x.s, x.m * f, x.e, FALSE)

\* numpy.true_divide(x, f) in float16, f a power of ten
DivPow10(x, f) ==
    IF x.k # "fin" THEN x
    ELSE LET n == x.m * 2^19
         IN  RoundHalf(x.s, n \div f, x.e - 19, n % f # 0)

\* rint as a truncation towards zero
RintTrunc(x) ==
    IF x.k # "fin" \/ x.e >= 0 THEN x
    ELSE RoundHalf(x.s, x.m \div 2^(0 - x.e), 0, FALSE)

\* numpy.rint: the nearest integer, ties to even, the sign kept
Rint(x) ==
    IF x.k # "fin" \/ x.e >= 0 THEN x
    ELSE LET k == 0 - x.e
             q == x.m \div 2^k
             r == x.m % 2^k
             half == 2^(k - 1)
             up == r > half \/ (r = half /\ q % 2 = 1)
         IN  RoundHalf(x.s, IF up THEN q + 1 ELSE q, 0, FALSE)

\* numpy.around on one integer element: unchanged for decimals >= 0; for
\* decimals < 0 divided, rounded (ties to even) and multiplied in float64,
\* which is exact on the small integers used, and cast back
around_int(n, decimals) ==
    IF decimals >= 0 THEN n
    ELSE LET f == 10^(0 - decimals)
             q == n \div f
             r == n % f
             up == 2 * r > f \/ (2 * r = f /\ q % 2 = 1)
         IN  (IF up THEN q + 1 ELSE q) * f

\* numpy.around on one element: decimals > 0 multiplies, rounds and divides;
\* decimals = 0 is rint; decimals < 0 divides, rounds and multiplies
around(x, decimals) ==
    IF x.k = "int" THEN IntElem(around_int(x.m, decimals))
    ELSE IF decimals > 0 THEN DivPow10(Rint(MulPow10(x, 10^decimals)), 10^decimals)
    ELSE IF decimals = 0 THEN Rint(x)
    ELSE MulPow10(Rint(DivPow10(x, 10^(0 - decimals))), 10^(0 - decimals))


\* an array: its dtype and its elements
Array(dtype, data) == [dtype |-> dtype, data |-> data]

\* a tensor: numpy.around works element by element and keeps shape and dtype
around_tensor(preds, decimals) ==
    Array(preds.dtype, [i \in 1..Len(preds.data) |-> around(preds.data[i], decimals)])

\* PyArray_ISINTEGER(a) and decimals >= 0: numpy.around returns a itself
returns_input(preds, decimals) == preds.dtype = "int64" /\ decimals >= 0

\* ------------------------------------------------------------ Python values
\* [t |-> type name, v |-> number]; a float's v counts halves (v = 5 is 2.5)
PyInt(n) == [t |-> "int", v |-> n]
PyBool(b) == [t |-> "bool", v |-> IF b THEN 1 ELSE 0]
PyFloat(halves) == [t |-> "float", v |-> halves]
PyStr == [t |-> "str", v |-> 0]
PyNone == [t |-> "NoneType", v |-> 0]
\* an attribute the object does not have (yet)
Unset == [t |-> "unset", v |-> 0]

\* isinstance(x, (int, np.int)): np.int is the builtin int, bool its subclass
IsInstanceInt(x) == x.t \in {"int", "bool"}

\* the values tried for decimals: ints around zero, True, 2.0 and a string
DecimalsInputs ==
    {PyInt(n) : n \in (0 - 1)..MaxDecimals} \cup {PyBool(TRUE), PyFloat(4), PyStr}

\* float16 elements tried: 0.125 (a tie at two places) and -2.676
SampleElems == {Decode(12288), Decode(49498)}
\* int64 elements tried: 15 (a tie at minus one places) and -7
IntElems == {IntElem(15), IntElem(0 - 7)}

Tensors ==
    UNION {{Array("float16", d) : d \in [1..n -> SampleElems]}
              \cup {Array("int64", d) : d \in [1..n -> IntElems]} : n \in 0..MaxLen}

\* keyword arguments of set_params: a function from names to values
NoKwargs == [a \in {} |-> Unset]
Kw1(a, x) == [b \in {a} |-> x]
Kw2(a, x, b, y) == [c \in {a, b} |-> IF c = a THEN x ELSE y]
FlagNames == {"_apply_fit", "_apply_predict", "apply_fit", "apply_predict"}
KwargsInputs ==
    {NoKwargs}
        \cup {Kw1("decimals", x) : x \in DecimalsInputs}
        \cup {Kw1(a, PyBool(a \in {"_apply_fit", "apply_fit"})) : a \in FlagNames}
        \cup {Kw2("decimals", PyInt(2), "_apply_fit", PyBool(TRUE)),
              Kw2("decimals", PyInt(0), "_apply_predict", PyBool(FALSE))}

\* -------------------------------------------------------------------- state
VARIABLES
    alive,      \* a Rounded object has been constructed
    self,       \* its attributes: decimals, _apply_fit, _apply_predict, _is_fitted
    ctor,       \* the arguments its constructor was given
    committed,  \* decimals of the last set_params that returned True
    heap,       \* the arrays alive: heap[1] is the caller's tensor
    last        \* the last operation, see Op

rvars == <<alive, self, ctor, committed, heap, last>>

\* the state of the attack engine (see below)
VARIABLES
    pc,      \* "idle", "conj", "proj", "check" or "done"
    it,      \* outer iterations completed
    cj,      \* iterations of the running conjugate Sinkhorn loop
    pj,      \* iterations of the running projected Sinkhorn loop
    thr,     \* thr[s]: updates after which the classifier errs on s
    cand,    \* cand[s]: the candidate of sample s
    new,     \* new[s]: the stepped and projected candidate of this iteration
    succ     \* succ[s]: s was seen misclassified (or hit its target)

avars == <<pc, it, cj, pj, thr, cand, new, succ>>
vars == <<alive, self, ctor, committed, heap, last,
          pc, it, cj, pj, thr, cand, new, succ>>

NoObject ==
    [decimals |-> Unset, _apply_fit |-> Unset, _apply_predict |-> Unset,
     _is_fitted |-> Unset]

\* the decimals keyword of a call, Unset when it was not given
Given(kwargs) == IF "decimals" \in DOMAIN kwargs THEN kwargs["decimals"] ELSE Unset

\* op: the operation; names: the keywords it was passed; given: the decimals
\* among them; arg: the array it was passed; res: its outcome; ret: the array
\* it returned
Op(op, kw, arg, res, ret) ==
    [op |-> op, names |-> DOMAIN kw, given |-> Given(kw), arg |-> arg,
     res |-> res, ret |-> ret]

\* params naming the flags too
params_with_flags == {"decimals", "_apply_fit", "_apply_predict"}

\* Rounded.params: the attributes set_params may save
params == {"decimals"}

\* Postprocessor.set_params: save the keyword arguments named in params
Postprocessor_set_params(obj, kwargs) ==
    [a \in DOMAIN obj |->
        IF a \in DOMAIN kwargs /\ a \in params THEN kwargs[a] ELSE obj[a]]

\* the check of Rounded.set_params, on the attribute as saved
check_fails(obj) ==
    ~IsInstanceInt(obj.decimals) \/ obj.decimals.v <= 0

\* Rounded.set_params: the attributes after the call (saved first, then
\* checked), and its outcome
set_params_attrs(obj, kwargs) == Postprocessor_set_params(obj, kwargs)

set_params_result(obj, kwargs) ==
    IF check_fails(set_params_attrs(obj, kwargs)) THEN "ValueError" ELSE "True"

\* numpy.around with out=preds: the input array is overwritten as well
np_around_inplace(h, id, decimals) ==
    IF returns_input(h[id], decimals) THEN [heap |-> h, ret |-> id]
    ELSE [heap |-> Append([h EXCEPT ![id] = around_tensor(h[id], decimals)],
                          around_tensor(h[id], decimals)),
          ret |-> Len(h) + 1]

\* numpy.around(preds, decimals) with no out argument: the heap after the
\* call and the array returned.  An integer array with decimals >= 0 is
\* returned as it is, the same object; otherwise the result is a new array,
\* appended to the heap.  The arrays already there are left as they are.
np_around(h, id, decimals) ==
    IF returns_input(h[id], decimals) THEN [heap |-> h, ret |-> id]
    ELSE [heap |-> Append(h, around_tensor(h[id], decimals)), ret |-> Len(h) + 1]

\* keyword arguments tried for fit
FitKwargs == {NoKwargs, Kw1("decimals", PyInt(0))}

\* ------------------------------------------------------------------ actions
\* Rounded(decimals, apply_fit, apply_predict): the flags are stored, then
\* set_params(decimals=decimals) runs; when it raises no object is returned
Construct(v, a, b) ==
    LET obj0 == [decimals |-> Unset, _apply_fit |-> PyBool(a),
                 _apply_predict |-> PyBool(b), _is_fitted |-> PyBool(TRUE)]
        kw == Kw1("decimals", v)
        res == set_params_result(obj0, kw)
    IN  /\ ~alive
        /\ alive' = (res = "True")
        /\ self' = IF res = "True" THEN set_params_attrs(obj0, kw) ELSE NoObject
        /\ ctor' = IF res = "True"
                   THEN [apply_fit |-> PyBool(a), apply_predict |-> PyBool(b)]
                   ELSE ctor
        /\ committed' = IF res = "True" THEN v ELSE committed
        /\ last' = Op("__init__", kw, 0, res, 0)
        /\ UNCHANGED heap
        /\ UNCHANGED avars

\* Rounded.set_params(**kwargs)
set_params(kwargs) ==
    LET res == set_params_result(self, kwargs)
    IN  /\ alive
        /\ self' = set_params_attrs(self, kwargs)
        /\ committed' = IF res = "True" THEN self'.decimals ELSE committed
        /\ last' = Op("set_params", kwargs, 0, res, 0)
        /\ UNCHANGED <<alive, ctor, heap>>
        /\ UNCHANGED avars

\* a fit that saves its keyword arguments
fit_saves_params(id, kwargs) ==
    /\ alive
    /\ id \in 1..Len(heap)
    /\ self' = Postprocessor_set_params(self, kwargs)
    /\ last' = Op("fit", kwargs, id, "None", 0)
    /\ UNCHANGED <<alive, ctor, committed, heap>>
    /\ UNCHANGED avars

\* Rounded.fit(preds, **kwargs): pass
fit(id, kwargs) ==
    /\ alive
    /\ id \in 1..Len(heap)
    /\ last' = Op("fit", kwargs, id, "None", 0)
    /\ UNCHANGED <<alive, self, ctor, committed, heap>>
    /\ UNCHANGED avars

\* Rounded.__call__(preds): np.around(preds, decimals=self.decimals); a
\* decimals that is no integer makes numpy raise TypeError
call(id) ==
    /\ alive
    /\ id \in 1..Len(heap)
    /\ IF IsInstanceInt(self.decimals)
       THEN /\ heap' = np_around(heap, id, self.decimals.v).heap
            /\ last' = Op("__call__", NoKwargs, id, "ok",
                          np_around(heap, id, self.decimals.v).ret)
       ELSE /\ heap' = heap
            /\ last' = Op("__call__", NoKwargs, id, "TypeError", 0)
    /\ UNCHANGED <<alive, self, ctor, committed>>
    /\ UNCHANGED avars

\* the caller drops the results it holds and keeps its own tensor
release ==
    /\ Len(heap) > 1
    /\ heap' = <<heap[1]>>
    /\ last' = Op("release", NoKwargs, 0, "None", 0)
    /\ UNCHANGED <<alive, self, ctor, committed>>
    /\ UNCHANGED avars

\* -------------------------------------------- Wasserstein attack engine
\* The attack of test_wasserstein.py, as the specification describes it: per
\* batch an outer loop of gradient step, conjugate Sinkhorn, projected
\* Sinkhorn and success check.  A candidate is a number of accepted updates;
\* the classifier misclassifies sample s once its candidate reaches thr[s].

\* samples in a batch
NSamples == 2
\* num_iter of the test: max_iter and both Sinkhorn caps
max_iter == 5
conjugate_sinkhorn_max_iter == 5
projected_sinkhorn_max_iter == 5

Samples == 1..NSamples

\* the success test of step 5 on candidate c of sample s
misclassified(s, c) == c >= thr[s]

\* step 2: the gradient step is taken on the whole batch
step_candidates == [s \in Samples |-> cand[s] + 1]

\* step 5 taking the projected candidate for the whole batch
accept_all == new

\* step 5: a sample that succeeded keeps its candidate, the others take the
\* projected one
accept_candidates == [s \in Samples |-> IF succ[s] THEN cand[s] ELSE new[s]]

generate ==
    /\ pc = "idle"
    /\ succ' = [s \in Samples |-> misclassified(s, cand[s])]
    /\ pc' = IF \A s \in Samples : succ'[s] THEN "done" ELSE "grad"
    /\ UNCHANGED <<it, cj, pj, thr, cand, new>>
    /\ UNCHANGED rvars

GradientStep ==
    /\ pc = "grad"
    /\ new' = step_candidates
    /\ cj' = 0
    /\ pj' = 0
    /\ pc' = "conj"
    /\ UNCHANGED <<it, thr, cand, succ>>
    /\ UNCHANGED rvars

\* one iteration of the conjugate Sinkhorn loop: it ends on convergence or at
\* its cap, and the cap raises nothing
ConjugateSinkhornIter(converged) ==
    /\ pc = "conj"
    /\ cj < conjugate_sinkhorn_max_iter
    /\ cj' = cj + 1
    /\ pc' = IF converged \/ cj' >= conjugate_sinkhorn_max_iter
             THEN "proj" ELSE "conj"
    /\ UNCHANGED <<it, pj, thr, cand, new, succ>>
    /\ UNCHANGED rvars

\* a projected Sinkhorn loop that ends on convergence alone
ProjectedSinkhornIter_nocap(converged) ==
    /\ pc = "proj"
    /\ pj' = pj + 1
    /\ pc' = IF converged THEN "check" ELSE "proj"
    /\ UNCHANGED <<it, cj, thr, cand, new, succ>>
    /\ UNCHANGED rvars

\* one iteration of the projected Sinkhorn loop
ProjectedSinkhornIter(converged) ==
    /\ pc = "proj"
    /\ pj < projected_sinkhorn_max_iter
    /\ pj' = pj + 1
    /\ pc' = IF converged \/ pj' >= projected_sinkhorn_max_iter
             THEN "check" ELSE "proj"
    /\ UNCHANGED <<it, cj, thr, cand, new, succ>>
    /\ UNCHANGED rvars

SuccessCheck ==
    /\ pc = "check"
    /\ cand' = accept_candidates
    /\ succ' = [s \in Samples |-> succ[s] \/ misclassified(s, cand'[s])]
    /\ it' = it + 1
    /\ pc' = IF it' >= max_iter \/ \A s \in Samples : succ'[s]
             THEN "done" ELSE "grad"
    /\ UNCHANGED <<cj, pj, thr, new>>
    /\ UNCHANGED rvars

\* ----------------------------------------------------------- specifications
NoOp == Op("none", NoKwargs, 0, "None", 0)
NoCtor == [apply_fit |-> Unset, apply_predict |-> Unset]

AttackIdle ==
    /\ pc = "idle" /\ it = 0 /\ cj = 0 /\ pj = 0
    /\ thr = [s \in Samples |-> 0]
    /\ cand = [s \in Samples |-> 0]
    /\ new = [s \in Samples |-> 0]
    /\ succ = [s \in Samples |-> FALSE]

RoundedIdle ==
    /\ alive = FALSE /\ self = NoObject /\ ctor = NoCtor /\ committed = Unset
    /\ heap = <<>> /\ last = NoOp

\* the postprocessor: no object yet, the caller holds one tensor
Init ==
    /\ alive = FALSE /\ self = NoObject /\ ctor = NoCtor /\ committed = Unset
    /\ heap \in {<<t>> : t \in Tensors}
    /\ last = NoOp
    /\ AttackIdle

Next ==
    \/ \E v \in DecimalsInputs, a \in BOOLEAN, b \in BOOLEAN : Construct(v, a, b)
    \/ \E kwargs \in KwargsInputs : set_params(kwargs)
    \/ \E id \in 1..MaxArrays, kwargs \in FitKwargs : fit(id, kwargs)
    \/ \E id \in 1..MaxArrays : Len(heap) < MaxArrays /\ call(id)
    \/ release

Spec == Init /\ [][Next]_vars

\* rounding alone: a constructed object with valid decimals, every binary16
\* value as a one-element tensor, and __call__ applied to the latest result
InitAround ==
    /\ alive = TRUE
    /\ \E d \in 1..MaxDecimals, a \in BOOLEAN :
          /\ self = [decimals |-> PyInt(d), _apply_fit |-> PyBool(a),
                     _apply_predict |-> PyBool(TRUE), _is_fitted |-> PyBool(TRUE)]
          /\ ctor = [apply_fit |-> PyBool(a), apply_predict |-> PyBool(TRUE)]
          /\ committed = PyInt(d)
    /\ heap \in {<<Array("float16", <<Decode(bits)>>)>> : bits \in 0..65535}
    /\ last = NoOp
    /\ AttackIdle

NextAround == Len(heap) <= MaxApplications /\ call(Len(heap))

SpecAround == InitAround /\ [][NextAround]_vars

\* the attack: thresholds drawn per sample (beyond max_iter: never succeeds)
InitAttack ==
    /\ RoundedIdle
    /\ pc = "idle" /\ it = 0 /\ cj = 0 /\ pj = 0
    /\ thr \in [Samples -> 0..(max_iter + 1)]
    /\ cand = [s \in Samples |-> 0]
    /\ new = [s \in Samples |-> 0]
    /\ succ = [s \in Samples |-> FALSE]

NextAttack ==
    \/ generate
    \/ GradientStep
    \/ \E converged \in BOOLEAN : ConjugateSinkhornIter(converged)
    \/ \E converged \in BOOLEAN : ProjectedSinkhornIter(converged)
    \/ SuccessCheck

SpecAttack == InitAttack /\ [][NextAttack]_vars

\* ------------------------------------------------------------------- claims
IsPositiveInt(x) == IsInstanceInt(x) /\ x.v > 0

\* C1: a set_params(decimals=v) that raises on an object holding a valid
\* decimals leaves that decimals in place.
SetParamsAllOrNothing ==
    [][(/\ alive
        /\ IsPositiveInt(self.decimals)
        /\ last'.op = "set_params"
        /\ last'.given # Unset
        /\ last'.res = "ValueError")
       => self'.decimals = self.decimals]_vars

\* C2: the decimals of a constructed object is always an integer above zero,
\* and a constructor that raised left no object.
DecimalsAlwaysPositive ==
    /\ alive => IsPositiveInt(self.decimals)
    /\ (last.op = "__init__" /\ ~IsPositiveInt(last.given)) => ~alive

\* C3: set_params(decimals=v) raises exactly when v is no positive integer,
\* and every __call__ rounds to the decimals of the last set_params that
\* returned True.
SetParamsContract ==
    /\ (last.op = "set_params" /\ last.given # Unset)
          => (last.res = "True" <=> IsPositiveInt(last.given))
    /\ last.op = "__call__"
          => /\ last.res = "ok"
             /\ heap[last.ret] = around_tensor(heap[last.arg], committed.v)

\* C4: with valid decimals, rounding a rounded tensor again gives the same
\* tensor (NaN stays NaN).
RoundingIdempotent ==
    \A k \in 2..(Len(heap) - 1) : heap[k + 1] = heap[k]

\* a tensor that rounding changed was rounded a second time
RoundingIdempotentWitness ==
    /\ Len(heap) = 3
    /\ IsPositiveInt(self.decimals)
    /\ last.op = "__call__" /\ last.arg = 2 /\ last.ret = 3
    /\ heap[2] # heap[1]
    /\ heap[2].data[1].k = "fin" /\ heap[2].data[1].m # 0

FlagsReadOnly ==
    alive => /\ self._apply_fit = ctor.apply_fit
             /\ self._apply_predict = ctor.apply_predict

\* set_params was passed a flag it would flip, together with a new decimals,
\* on an object whose two flags differ
FlagsReadOnlyWitness ==
    /\ alive
    /\ last.op = "set_params" /\ last.names = {"decimals", "_apply_fit"}
    /\ last.res = "True"
    /\ self._apply_fit = PyBool(FALSE) /\ self._apply_predict = PyBool(TRUE)
    /\ self.decimals = PyInt(2)

\* C7: fit returns None and changes neither the object nor any array.
FitIsNoOp ==
    [][last'.op = "fit"
       => /\ last'.res = "None"
          /\ self' = self /\ alive' = alive /\ ctor' = ctor
          /\ committed' = committed
          /\ heap' = heap]_vars

\* fit was passed decimals=0 on a valid object, which is still valid
FitIsNoOpWitness ==
    /\ alive
    /\ last.op = "fit" /\ last.given = PyInt(0)
    /\ IsPositiveInt(self.decimals)

\* C8: neither Sinkhorn loop runs more iterations than its cap, and at the
\* cap the loop has been left for the next phase.
SinkhornBounded ==
    /\ pj <= projected_sinkhorn_max_iter
    /\ cj <= conjugate_sinkhorn_max_iter
    /\ pc = "proj" => pj < projected_sinkhorn_max_iter
    /\ pc = "conj" => cj < conjugate_sinkhorn_max_iter
    /\ pc \in {"idle", "grad", "conj", "proj", "check", "done"}

\* both loops ran to their caps and the engine went on to the success check
SinkhornBoundedWitness ==
    /\ pc = "check"
    /\ pj = projected_sinkhorn_max_iter
    /\ cj = conjugate_sinkhorn_max_iter

\* C9: a sample that has succeeded keeps its candidate for good; at every
\* success check each other sample takes its new candidate; and the batch is
\* done only after max_iter iterations or when every sample has succeeded.
FrozenOnceSucceeded ==
    [][/\ \A s \in Samples :
             /\ succ[s] => (succ'[s] /\ cand'[s] = cand[s])
             /\ (pc = "check" /\ pc' # "check" /\ ~succ[s])
                   => (cand'[s] = new[s] /\ cand'[s] # cand[s])
       /\ pc' = "done" => (it' = max_iter \/ \A s \in Samples : succ'[s])]_vars

\* one sample froze early while another was updated through max_iter
FrozenOnceSucceededWitness ==
    /\ pc = "done" /\ it = max_iter
    /\ \E s, t \in Samples :
          /\ succ[s] /\ ~succ[t]
          /\ cand[s] = 1 /\ cand[t] = max_iter

=============================================================================
